---- MODULE Spec2Model ----
(***************************************************************************)
(* Weather-alert dashboard: the threshold-to-alert evaluation function of  *)
(* supabase/functions/fetch-weather/index.ts (analyzeWeatherForAlerts),    *)
(* the fetch-weather request handler with the three tables of the          *)
(* migration, and the refresh logic of the Dashboard component.            *)
(*                                                                         *)
(* Numbers are JavaScript numbers in the source.  The model samples them   *)
(* on the integer grid: every comparison of the source (>=, <=, >, +5, -5, *)
(* +10, Math.abs) is exact there, and toFixed/String are modelled by the   *)
(* text they produce for an integer-valued number.                         *)
(***************************************************************************)
EXTENDS Integers, Sequences, FiniteSets, TLC

(***************************************************************************)
(* Bounds of the model.                                                    *)
(***************************************************************************)
MaxTemp == 7
MaxFeelsLike == 6
MaxThreshold == 2
MaxWindThreshold == 1
MaxHumidityThreshold == 1
MaxCalls == 2

(***************************************************************************)
(* Program constants: the margins and digit counts written in the rules.   *)
(***************************************************************************)
TempExtremeMargin == 5
LowTempExtremeMargin == 5
WindExtremeMargin == 10
HumidityHighMargin == 10
FeelsLikeLimit == 5
TempDigits == 1
WindDigits == 1
HumidityDigits == 0

VARIABLES weather, thresholds, alerts, first, calls, pc

(* The three tables, the uuid source, and the latest fetch-weather request *)
(* with the fault met while serving it and the response sent.              *)
VARIABLES user_preferences, weather_data, weather_alerts, nextId,
          served, req, fault, response

(* The Dashboard component's state (preferences, the weather shown,       *)
(* refreshing, showSettings), the fetchWeather calls awaiting their reply, *)
(* the calls whose reply carried no weather, and the version of the        *)
(* preference row in storage.                                              *)
VARIABLES preferences, shownWeather, refreshing, showSettings, inFlight,
          started, stored, failed

evalVars == <<weather, thresholds, alerts, first, calls, pc>>

dashVars == <<preferences, shownWeather, refreshing, showSettings, inFlight,
              started, stored, failed>>

(* The SettingsModal: the preference row in storage that it edits, its     *)
(* formData state (None while the modal is not mounted) and the number of  *)
(* submissions.                                                            *)
VARIABLES storedPreference, formData, submitted

settingsVars == <<storedPreference, formData, submitted>>

tables == <<user_preferences, weather_data, weather_alerts>>

handlerVars == <<user_preferences, weather_data, weather_alerts, nextId,
                 served, req, fault, response>>

vars == <<evalVars, handlerVars, dashVars, settingsVars>>

(* An optional value: undefined/null is the empty tuple. *)
None == <<>>
Some(v) == <<v>>

Abs(x) == IF x < 0 THEN -x ELSE x

(***************************************************************************)
(* Input domains.  Temperatures reach 5 and more beyond either threshold.  *)
(* feels_like is sampled at 0 and from the perception limit upwards, so    *)
(* that differences of exactly 5 and of more than 5 occur in both          *)
(* directions.  Wind speed and humidity are sampled around the threshold   *)
(* and around threshold + 10.                                              *)
(***************************************************************************)
Temperatures == -MaxTemp .. MaxTemp
FeelsLikes == {0} \cup (FeelsLikeLimit .. MaxFeelsLike)
WindSpeeds == {o + k * WindExtremeMargin : o \in 0 .. MaxWindThreshold, k \in 0 .. 1}
Humidities == {o + k * HumidityHighMargin : o \in 0 .. MaxHumidityThreshold, k \in 0 .. 1}

WeatherData ==
  [temperature : Temperatures, feels_like : FeelsLikes,
   humidity : Humidities, wind_speed : WindSpeeds]

AlertThresholds ==
  [temp_threshold_high : 0 .. MaxThreshold,
   temp_threshold_low : 0 .. MaxThreshold,
   wind_speed_threshold : 1 .. MaxWindThreshold,
   humidity_threshold : 1 .. MaxHumidityThreshold]

(***************************************************************************)
(* Number.prototype.toFixed(digits) on an integer-valued number: the       *)
(* decimal digits of the number, then "." and `digits` zeros.  It throws a *)
(* RangeError when digits is outside 0..100.                               *)
(***************************************************************************)
RECURSIVE Zeros(_)
Zeros(n) == IF n <= 0 THEN "" ELSE "0" \o Zeros(n - 1)

toFixedThrows(digits) == digits < 0 \/ digits > 100

toFixed(x, digits) ==
  IF digits = 0 THEN ToString(x) ELSE ToString(x) \o "." \o Zeros(digits)

(* Template-literal interpolation ${n} of a number. *)
String(x) == ToString(x)

(***************************************************************************)
(* analyzeWeatherForAlerts: for each rule its severity, the alert it       *)
(* builds and the conditional push onto the array built so far.            *)
(***************************************************************************)

(* const alerts = [] : a fresh array for every call. *)
NewAlertsShared == alerts
NewAlerts == <<>>

(* Rule 1: high temperature. *)
HighTempSeverity(w, t) ==
  IF w.temperature >= t.temp_threshold_high + TempExtremeMargin
  THEN "extreme" ELSE "high"

HighTempAlert(w, t) ==
  [type |-> "HIGH_TEMP",
   severity |-> HighTempSeverity(w, t),
   title |-> "High Temperature Alert",
   message |-> "Temperature has reached "
               \o toFixed(w.temperature, TempDigits)
               \o "°C, which exceeds your threshold of "
               \o String(t.temp_threshold_high)
               \o "°C. Stay hydrated and avoid prolonged sun exposure."]

PushHighTempStrict(as, w, t) ==
  IF w.temperature > t.temp_threshold_high
  THEN Append(as, HighTempAlert(w, t)) ELSE as
PushHighTempLowField(as, w, t) ==
  IF w.temperature >= t.temp_threshold_low
  THEN Append(as, HighTempAlert(w, t)) ELSE as
PushHighTemp(as, w, t) ==
  IF w.temperature >= t.temp_threshold_high
  THEN Append(as, HighTempAlert(w, t)) ELSE as

(* Rule 2: low temperature. *)
LowTempSeverityPlus(w, t) ==
  IF w.temperature <= t.temp_threshold_low + LowTempExtremeMargin
  THEN "extreme" ELSE "high"
LowTempSeverity(w, t) ==
  IF w.temperature <= t.temp_threshold_low - LowTempExtremeMargin
  THEN "extreme" ELSE "high"

LowTempAlert(w, t) ==
  [type |-> "LOW_TEMP",
   severity |-> LowTempSeverity(w, t),
   title |-> "Low Temperature Alert",
   message |-> "Temperature has dropped to "
               \o toFixed(w.temperature, TempDigits)
               \o "°C, which is below your threshold of "
               \o String(t.temp_threshold_low)
               \o "°C. Dress warmly and protect against cold exposure."]

PushLowTempElseIf(as, w, t) ==
  IF w.temperature >= t.temp_threshold_high
  THEN as
  ELSE IF w.temperature <= t.temp_threshold_low
       THEN Append(as, LowTempAlert(w, t)) ELSE as
PushLowTempHighField(as, w, t) ==
  IF w.temperature <= t.temp_threshold_high
  THEN Append(as, LowTempAlert(w, t)) ELSE as
PushLowTemp(as, w, t) ==
  IF w.temperature <= t.temp_threshold_low
  THEN Append(as, LowTempAlert(w, t)) ELSE as

(* Rule 3: strong wind. *)
StrongWindSeverityTempMargin(w, t) ==
  IF w.wind_speed >= t.wind_speed_threshold + TempExtremeMargin
  THEN "extreme" ELSE "high"
StrongWindSeverity(w, t) ==
  IF w.wind_speed >= t.wind_speed_threshold + WindExtremeMargin
  THEN "extreme" ELSE "high"

StrongWindAlert(w, t) ==
  [type |-> "STRONG_WIND",
   severity |-> StrongWindSeverity(w, t),
   title |-> "Strong Wind Alert",
   message |-> "Wind speed has reached "
               \o toFixed(w.wind_speed, WindDigits)
               \o " m/s, exceeding your threshold of "
               \o String(t.wind_speed_threshold)
               \o " m/s. Secure loose objects and avoid outdoor activities."]

PushStrongWind(as, w, t) ==
  IF w.wind_speed >= t.wind_speed_threshold
  THEN Append(as, StrongWindAlert(w, t)) ELSE as

(* Rule 4: high humidity. *)
HighHumiditySeverityLikeWind(w, t) ==
  IF w.humidity >= t.humidity_threshold + HumidityHighMargin
  THEN "extreme" ELSE "high"
HighHumiditySeverityModerate(w, t) ==
  IF w.humidity >= t.humidity_threshold + HumidityHighMargin
  THEN "high" ELSE "moderate"
HighHumiditySeverity(w, t) ==
  IF w.humidity >= t.humidity_threshold + HumidityHighMargin
  THEN "high" ELSE "medium"

HighHumidityAlert(w, t) ==
  [type |-> "HIGH_HUMIDITY",
   severity |-> HighHumiditySeverity(w, t),
   title |-> "High Humidity Alert",
   message |-> "Humidity level has reached "
               \o toFixed(w.humidity, HumidityDigits)
               \o "%, exceeding your threshold of "
               \o String(t.humidity_threshold)
               \o "%. Expect discomfort and potential health impacts."]

PushHighHumidity(as, w, t) ==
  IF w.humidity >= t.humidity_threshold
  THEN Append(as, HighHumidityAlert(w, t)) ELSE as

(* Rule 5: actual versus perceived temperature. *)
tempDiff(w) == Abs(w.temperature - w.feels_like)

FeelsLikeDiffAlert(w) ==
  [type |-> "FEELS_LIKE_DIFF",
   severity |-> "medium",
   title |-> "Temperature Perception Alert",
   message |-> "Actual temperature is "
               \o toFixed(w.temperature, TempDigits)
               \o "°C but feels like "
               \o toFixed(w.feels_like, TempDigits)
               \o "°C. Adjust your clothing accordingly."]

PushFeelsLikeDiffInclusive(as, w) ==
  IF tempDiff(w) >= FeelsLikeLimit
  THEN Append(as, FeelsLikeDiffAlert(w)) ELSE as
PushFeelsLikeDiff(as, w) ==
  IF tempDiff(w) > FeelsLikeLimit
  THEN Append(as, FeelsLikeDiffAlert(w)) ELSE as

(* The rules in the order the function runs them; the array is returned. *)
analyzeWindBeforeTemp(w, t) ==
  PushFeelsLikeDiff(
    PushHighHumidity(
      PushLowTemp(
        PushHighTemp(
          PushStrongWind(NewAlerts, w, t), w, t), w, t), w, t), w)
analyzeWeatherForAlerts(w, t) ==
  PushFeelsLikeDiff(
    PushHighHumidity(
      PushStrongWind(
        PushLowTemp(
          PushHighTemp(NewAlerts, w, t), w, t), w, t), w, t), w)

(* A call fails exactly when one of the toFixed calls it reaches throws. *)
analyzeThrows(w, t) ==
  \/ /\ \/ w.temperature >= t.temp_threshold_high
        \/ w.temperature <= t.temp_threshold_low
        \/ tempDiff(w) > FeelsLikeLimit
     /\ toFixedThrows(TempDigits)
  \/ /\ w.wind_speed >= t.wind_speed_threshold
     /\ toFixedThrows(WindDigits)
  \/ /\ w.humidity >= t.humidity_threshold
     /\ toFixedThrows(HumidityDigits)

(***************************************************************************)
(* The state machine: an observation and a preference's thresholds are     *)
(* given; the function is called on them, and called again.                *)
(***************************************************************************)
NoRequest ==
  [authHeader |-> None, preferenceId |-> None, lat |-> None, lon |-> None]

NoResponse == [status |-> 0, error |-> "", weather |-> None, alerts |-> {}]

(* The useState initial values: the Dashboard before its first effect. *)
DashboardUnmounted ==
  /\ preferences = None
  /\ shownWeather = None
  /\ refreshing = FALSE
  /\ showSettings = FALSE
  /\ inFlight = {}
  /\ started = 0
  /\ stored = 0
  /\ failed = {}

(* A preference row holding the column defaults, and no modal mounted. *)
SettingsIdle ==
  /\ storedPreference = [location_name |-> "A", latitude |-> 1, longitude |-> 1,
                         temp_threshold_high |-> 35, temp_threshold_low |-> 0,
                         wind_speed_threshold |-> 15, humidity_threshold |-> 85,
                         alerts_enabled |-> TRUE]
  /\ formData = None
  /\ submitted = 0

(* No table has a row and no request was served. *)
HandlerIdle ==
  /\ user_preferences = {}
  /\ weather_data = {}
  /\ weather_alerts = {}
  /\ nextId = 1
  /\ served = 0
  /\ req = NoRequest
  /\ fault = "none"
  /\ response = NoResponse

Init ==
  /\ weather \in WeatherData
  /\ thresholds \in AlertThresholds
  /\ alerts = <<>>
  /\ first = <<>>
  /\ calls = 0
  /\ pc = "ready"
  /\ HandlerIdle
  /\ DashboardUnmounted
  /\ SettingsIdle

Call ==
  /\ calls < MaxCalls
  /\ pc # "threw"
  /\ calls' = calls + 1
  /\ IF analyzeThrows(weather, thresholds)
     THEN /\ pc' = "threw"
          /\ UNCHANGED <<alerts, first>>
     ELSE /\ pc' = "returned"
          /\ alerts' = analyzeWeatherForAlerts(weather, thresholds)
          /\ first' = IF calls = 0 THEN alerts' ELSE first
  /\ UNCHANGED <<weather, thresholds>>
  /\ UNCHANGED <<handlerVars, dashVars, settingsVars>>

Next == Call

SpecEval == Init /\ [][Next]_vars

TypeOK ==
  /\ weather \in WeatherData
  /\ thresholds \in AlertThresholds
  /\ calls \in 0 .. MaxCalls
  /\ pc \in {"ready", "returned", "threw"}

(***************************************************************************)
(* Vocabulary of the properties.                                           *)
(***************************************************************************)
Returned == pc = "returned"

Has(ty) == \E i \in DOMAIN alerts : alerts[i].type = ty

SeveritiesOf(ty) ==
  {alerts[i].severity : i \in {j \in DOMAIN alerts : alerts[j].type = ty}}

TypesOf(as) == [i \in DOMAIN as |-> as[i].type]

RuleOrder ==
  <<"HIGH_TEMP", "LOW_TEMP", "STRONG_WIND", "HIGH_HUMIDITY", "FEELS_LIKE_DIFF">>

Rank(ty) == CHOOSE r \in DOMAIN RuleOrder : RuleOrder[r] = ty

(***************************************************************************)
(* C1.  After a call, the result holds a HIGH_TEMP alert iff               *)
(* temperature >= temp_threshold_high; that alert is 'extreme' iff         *)
(* temperature >= temp_threshold_high + 5 and 'high' otherwise; at         *)
(* temperature = temp_threshold_high it is there and is 'high'.            *)
(***************************************************************************)
C1_HighTemp ==
  Returned =>
    /\ Has("HIGH_TEMP") <=> weather.temperature >= thresholds.temp_threshold_high
    /\ \A i \in DOMAIN alerts :
         alerts[i].type = "HIGH_TEMP" =>
           /\ alerts[i].severity \in {"extreme", "high"}
           /\ alerts[i].severity = "extreme"
                <=> weather.temperature >= thresholds.temp_threshold_high + 5
    /\ weather.temperature = thresholds.temp_threshold_high
         => SeveritiesOf("HIGH_TEMP") = {"high"}

C1_Witness ==
  /\ Returned
  /\ weather.temperature = thresholds.temp_threshold_high
  /\ SeveritiesOf("HIGH_TEMP") = {"high"}

(***************************************************************************)
(* C2.  After a call, the result holds a LOW_TEMP alert iff                *)
(* temperature <= temp_threshold_low (the boundary included); that alert   *)
(* is 'extreme' iff temperature <= temp_threshold_low - 5 and 'high'       *)
(* otherwise.                                                              *)
(***************************************************************************)
C2_LowTemp ==
  Returned =>
    /\ Has("LOW_TEMP") <=> weather.temperature <= thresholds.temp_threshold_low
    /\ \A i \in DOMAIN alerts :
         alerts[i].type = "LOW_TEMP" =>
           /\ alerts[i].severity \in {"extreme", "high"}
           /\ alerts[i].severity = "extreme"
                <=> weather.temperature <= thresholds.temp_threshold_low - 5

C2_Witness ==
  /\ Returned
  /\ weather.temperature = thresholds.temp_threshold_low - 5
  /\ SeveritiesOf("LOW_TEMP") = {"extreme"}

(***************************************************************************)
(* C3.  After a call, the result holds a STRONG_WIND alert iff             *)
(* wind_speed >= wind_speed_threshold; that alert is 'extreme' iff         *)
(* wind_speed >= wind_speed_threshold + 10 and 'high' otherwise.           *)
(***************************************************************************)
C3_StrongWind ==
  Returned =>
    /\ Has("STRONG_WIND") <=> weather.wind_speed >= thresholds.wind_speed_threshold
    /\ \A i \in DOMAIN alerts :
         alerts[i].type = "STRONG_WIND" =>
           /\ alerts[i].severity \in {"extreme", "high"}
           /\ alerts[i].severity = "extreme"
                <=> weather.wind_speed >= thresholds.wind_speed_threshold + 10

C3_Witness ==
  /\ Returned
  /\ weather.wind_speed = thresholds.wind_speed_threshold + 9
  /\ SeveritiesOf("STRONG_WIND") = {"high"}

(***************************************************************************)
(* C4.  After a call, the result holds a HIGH_HUMIDITY alert iff           *)
(* humidity >= humidity_threshold; that alert is 'high' iff                *)
(* humidity >= humidity_threshold + 10 and 'medium' otherwise, and so      *)
(* never 'extreme'.                                                        *)
(***************************************************************************)
C4_HighHumidity ==
  Returned =>
    /\ Has("HIGH_HUMIDITY") <=> weather.humidity >= thresholds.humidity_threshold
    /\ \A i \in DOMAIN alerts :
         alerts[i].type = "HIGH_HUMIDITY" =>
           /\ alerts[i].severity \in {"high", "medium"}
           /\ alerts[i].severity = "high"
                <=> weather.humidity >= thresholds.humidity_threshold + 10

C4_Witness ==
  /\ Returned
  /\ weather.humidity >= thresholds.humidity_threshold + 10
  /\ SeveritiesOf("HIGH_HUMIDITY") = {"high"}

(***************************************************************************)
(* C5.  After a call, the result holds a FEELS_LIKE_DIFF alert iff         *)
(* abs(temperature - feels_like) > 5, whatever the four thresholds are     *)
(* (a difference of exactly 5 gives none), and that alert is 'medium'.     *)
(***************************************************************************)
C5_FeelsLikeDiff ==
  Returned =>
    /\ Has("FEELS_LIKE_DIFF") <=> Abs(weather.temperature - weather.feels_like) > 5
    /\ SeveritiesOf("FEELS_LIKE_DIFF") \subseteq {"medium"}

C5_Witness ==
  /\ Returned
  /\ Abs(weather.temperature - weather.feels_like) = 5
  /\ ~Has("FEELS_LIKE_DIFF")
  /\ alerts # <<>>

(***************************************************************************)
(* C6.  The types of a returned sequence are a subsequence of HIGH_TEMP,   *)
(* LOW_TEMP, STRONG_WIND, HIGH_HUMIDITY, FEELS_LIKE_DIFF: only these       *)
(* types, each at most once, in that order, so at most five alerts.        *)
(***************************************************************************)
C6_FixedOrder ==
  Returned =>
    /\ \A i \in DOMAIN alerts : \E r \in DOMAIN RuleOrder : alerts[i].type = RuleOrder[r]
    /\ \A i, j \in DOMAIN alerts :
         i < j => Rank(alerts[i].type) < Rank(alerts[j].type)
    /\ Len(alerts) <= 5

C6_Witness ==
  /\ Returned
  /\ TypesOf(alerts) = RuleOrder

(***************************************************************************)
(* C7.  As claimed: whenever temperature lies strictly between             *)
(* temp_threshold_low and temp_threshold_high and                          *)
(* abs(temperature - feels_like) <= 5, the returned sequence is empty.     *)
(* The wind and humidity rules do not look at the temperature, so this     *)
(* fails; C7_QuietReadingAmended adds wind_speed < wind_speed_threshold    *)
(* and humidity < humidity_threshold to the premise.                       *)
(***************************************************************************)
TemperatureInBand ==
  /\ thresholds.temp_threshold_low < weather.temperature
  /\ weather.temperature < thresholds.temp_threshold_high
  /\ Abs(weather.temperature - weather.feels_like) <= 5

C7_QuietReadingOriginal ==
  (Returned /\ TemperatureInBand) => alerts = <<>>

(* C7 as amended: a reading with the temperature strictly inside the band, *)
(* abs(temperature - feels_like) <= 5, wind_speed below its threshold and  *)
(* humidity below its threshold returns the empty sequence.                *)
C7_QuietReadingAmended ==
  ( /\ Returned
    /\ TemperatureInBand
    /\ weather.wind_speed < thresholds.wind_speed_threshold
    /\ weather.humidity < thresholds.humidity_threshold )
  => alerts = <<>>

C7_Witness ==
  /\ Returned
  /\ TemperatureInBand
  /\ weather.wind_speed < thresholds.wind_speed_threshold
  /\ weather.humidity < thresholds.humidity_threshold
  /\ Len(alerts) = 0

(***************************************************************************)
(* C8.  As claimed: whenever the four threshold conditions are all crossed *)
(* at non-extreme margins, the returned sequence is exactly HIGH_TEMP,     *)
(* LOW_TEMP, STRONG_WIND, HIGH_HUMIDITY.  The fifth rule is independent of *)
(* the thresholds, so a fifth alert may follow; C8_AllFourAmended adds     *)
(* abs(temperature - feels_like) <= 5 to the premise.                      *)
(***************************************************************************)
AllFourCrossedNonExtreme ==
  /\ weather.temperature >= thresholds.temp_threshold_high
  /\ weather.temperature < thresholds.temp_threshold_high + 5
  /\ weather.temperature <= thresholds.temp_threshold_low
  /\ weather.temperature > thresholds.temp_threshold_low - 5
  /\ weather.wind_speed >= thresholds.wind_speed_threshold
  /\ weather.wind_speed < thresholds.wind_speed_threshold + 10
  /\ weather.humidity >= thresholds.humidity_threshold
  /\ weather.humidity < thresholds.humidity_threshold + 10

C8_AllFourOriginal ==
  (Returned /\ AllFourCrossedNonExtreme) =>
    TypesOf(alerts) = <<"HIGH_TEMP", "LOW_TEMP", "STRONG_WIND", "HIGH_HUMIDITY">>

(* C8 as amended: when the four threshold conditions are all crossed at    *)
(* non-extreme margins and abs(temperature - feels_like) <= 5, the         *)
(* returned sequence is exactly HIGH_TEMP, LOW_TEMP, STRONG_WIND,          *)
(* HIGH_HUMIDITY in that order.                                            *)
C8_AllFourAmended ==
  ( /\ Returned
    /\ AllFourCrossedNonExtreme
    /\ Abs(weather.temperature - weather.feels_like) <= 5 )
  => TypesOf(alerts) = <<"HIGH_TEMP", "LOW_TEMP", "STRONG_WIND", "HIGH_HUMIDITY">>

C8_Witness ==
  /\ Returned
  /\ AllFourCrossedNonExtreme
  /\ Abs(weather.temperature - weather.feels_like) <= 5
  /\ Len(alerts) = 4
  /\ SeveritiesOf("HIGH_TEMP") = {"high"}
  /\ SeveritiesOf("HIGH_HUMIDITY") = {"medium"}

C10_HighLowExclusive ==
  Returned =>
    /\ (Has("HIGH_TEMP") /\ Has("LOW_TEMP")) =>
         /\ thresholds.temp_threshold_high <= weather.temperature
         /\ weather.temperature <= thresholds.temp_threshold_low
    /\ thresholds.temp_threshold_low < thresholds.temp_threshold_high
         => ~(Has("HIGH_TEMP") /\ Has("LOW_TEMP"))

C10_Witness ==
  /\ Returned
  /\ thresholds.temp_threshold_low < thresholds.temp_threshold_high
  /\ weather.temperature = thresholds.temp_threshold_high
  /\ Has("HIGH_TEMP")
  /\ ~Has("LOW_TEMP")

(***************************************************************************)
(* The severity CHECK constraint of table weather_alerts.                  *)
(***************************************************************************)
SeverityCheck(severity) == severity \in {"low", "medium", "high", "extreme"}

(***************************************************************************)
(* C11.  Every alert of a returned sequence has one of the five types and  *)
(* a severity among low, medium, high, extreme, so that its severity       *)
(* passes the CHECK constraint of weather_alerts.                          *)
(***************************************************************************)
C11_DescriptorDomains ==
  Returned =>
    \A i \in DOMAIN alerts :
      /\ alerts[i].type \in
           {"HIGH_TEMP", "LOW_TEMP", "STRONG_WIND", "HIGH_HUMIDITY", "FEELS_LIKE_DIFF"}
      /\ alerts[i].severity \in {"low", "medium", "high", "extreme"}
      /\ SeverityCheck(alerts[i].severity)

C11_Witness ==
  /\ Returned
  /\ SeveritiesOf("HIGH_HUMIDITY") = {"medium"}
  /\ SeveritiesOf("STRONG_WIND") = {"high"}
  /\ SeveritiesOf("LOW_TEMP") = {"extreme"}

(***************************************************************************)
(* WeatherCard: the temperature status shown for a reading.                *)
(***************************************************************************)
tempStatus(w, prefs) ==
  IF w.temperature > prefs.temp_threshold_high
  THEN "hot"
  ELSE IF w.temperature < prefs.temp_threshold_low
       THEN "cold"
       ELSE "normal"

(***************************************************************************)
(* C19.  With temp_threshold_low < temp_threshold_high the card shows      *)
(* 'hot' exactly when the evaluator returns HIGH_TEMP, 'cold' exactly when *)
(* it returns LOW_TEMP and 'normal' exactly when it returns neither.       *)
(***************************************************************************)
C19_CardAgreesWithEvaluator ==
  (Returned /\ thresholds.temp_threshold_low < thresholds.temp_threshold_high) =>
    /\ tempStatus(weather, thresholds) = "hot" <=> Has("HIGH_TEMP")
    /\ tempStatus(weather, thresholds) = "cold" <=> Has("LOW_TEMP")
    /\ tempStatus(weather, thresholds) = "normal"
         <=> (~Has("HIGH_TEMP") /\ ~Has("LOW_TEMP"))

(***************************************************************************)
(* The fetch-weather handler (Deno.serve) on the tables of the migration.  *)
(* A table is the set of its rows.  An observation row keeps the four      *)
(* columns the evaluator reads; wind_direction, pressure, weather_condition*)
(* and weather_icon are copied along and read by no rule.                  *)
(***************************************************************************)
MaxRequests == 2

Users == {"u1", "u2"}

PreferenceIds == {"p1", "p2"}

(* A bearer token is named by the user it authenticates; "expired" is a    *)
(* token supabase.auth.getUser rejects.                                    *)
Tokens == Users \cup {"expired"}

getUser(token) == IF token \in Users THEN Some(token) ELSE None

(* The stored preferences: one per user, each with its own thresholds. *)
PreferenceRow(id, user, high, enabled) ==
  [id |-> id, user_id |-> user, latitude |-> 1, longitude |-> 1,
   temp_threshold_high |-> high, temp_threshold_low |-> 0,
   wind_speed_threshold |-> 1, humidity_threshold |-> 1,
   alerts_enabled |-> enabled]

(* What the weather provider may answer: a failure, or one of two readings. *)
Readings ==
  {[temperature |-> 1, feels_like |-> 0, humidity |-> 0, wind_speed |-> 0],
   [temperature |-> 2, feels_like |-> 0, humidity |-> 0, wind_speed |-> 1]}

Upstreams ==
  {[ok |-> FALSE, statusText |-> "Unauthorized", data |-> None]}
  \cup {[ok |-> TRUE, statusText |-> "OK", data |-> Some(w)] : w \in Readings}

Coordinates == {None, Some(0), Some(1)}

(* The requests tried: every combination of caller and preference with    *)
(* both coordinates non-zero, and, naming preference p1, the requests with *)
(* one defect: no header, an expired token, or one coordinate absent or 0. *)
Requests ==
  {r \in [authHeader : {None} \cup {Some(t) : t \in Tokens},
          preferenceId : {None} \cup {Some(p) : p \in PreferenceIds},
          lat : Coordinates,
          lon : Coordinates] :
     LET badAuth == r.authHeader = None \/ r.authHeader = Some("expired")
         badLat == r.lat # Some(1)
         badLon == r.lon # Some(1)
     IN  \/ ~badAuth /\ ~badLat /\ ~badLon
         \/ /\ r.preferenceId = Some("p1")
            /\ \/ badAuth /\ ~badLat /\ ~badLon
               \/ ~badAuth /\ badLat /\ ~badLon
               \/ ~badAuth /\ ~badLat /\ badLon}

(* A store operation of this request that fails (a database or network    *)
(* error), if any.                                                         *)
Faults == {"none", "weather_insert", "preference_read", "alert_insert"}

(* JavaScript !v for an optional number: undefined and 0 are falsy. *)
Falsy(v) == v = None \/ v = Some(0)

PreferenceOf(id) == {p \in user_preferences : Some(p.id) = id}

(* Foreign key weather_data.user_preference_id: null or an existing row. *)
PreferenceKeyOk(id) == id = None \/ PreferenceOf(id) # {}

ObservationRow(id, preferenceId, w) ==
  [id |-> id, user_preference_id |-> preferenceId,
   temperature |-> w.temperature, feels_like |-> w.feels_like,
   humidity |-> w.humidity, wind_speed |-> w.wind_speed]

(* alerts.map(...): the rows to insert; ids and is_read are column defaults. *)
alertsToInsertUnlinked(as, preferenceId, weatherId, firstId) ==
  {[id |-> firstId + i - 1,
    user_preference_id |-> preferenceId,
    alert_type |-> as[i].type,
    severity |-> as[i].severity,
    title |-> as[i].title,
    message |-> as[i].message,
    weather_data_id |-> None,
    is_read |-> FALSE] : i \in DOMAIN as}
alertsToInsert(as, preferenceId, weatherId, firstId) ==
  {[id |-> firstId + i - 1,
    user_preference_id |-> preferenceId,
    alert_type |-> as[i].type,
    severity |-> as[i].severity,
    title |-> as[i].title,
    message |-> as[i].message,
    weather_data_id |-> Some(weatherId),
    is_read |-> FALSE] : i \in DOMAIN as}

(* insert(alertsToInsert): the rows are added to the table. *)
InsertAlertsReplacing(table, rows) == rows
InsertAlerts(table, rows) == table \cup rows

(* The catch block: status 400 with the error's message. *)
RejectDefaultStatus(message, flt) ==
  /\ response' = [status |-> 200, error |-> message, weather |-> None, alerts |-> {}]
  /\ fault' = flt
Reject(message, flt) ==
  /\ response' = [status |-> 400, error |-> message, weather |-> None, alerts |-> {}]
  /\ fault' = flt

(* Lines 136-190: the observation is inserted, the preference read, the    *)
(* alerts evaluated and inserted, and the success response sent.           *)
Persist(r, w, f) ==
  LET id == nextId
      found == IF f = "preference_read" THEN {} ELSE PreferenceOf(r.preferenceId)
      enabled == {p \in found : p.alerts_enabled}
      generated == IF enabled = {} THEN <<>>
                   ELSE analyzeWeatherForAlerts(w, CHOOSE p \in enabled : TRUE)
      rows == alertsToInsert(generated, r.preferenceId, id, id + 1)
      alertInsertError ==
        \/ f = "alert_insert"
        \/ \E a \in rows : ~SeverityCheck(a.severity)
      inserted == IF alertInsertError THEN {} ELSE rows
  IN  /\ weather_data' = weather_data \cup {ObservationRow(id, r.preferenceId, w)}
      /\ IF enabled # {} /\ analyzeThrows(w, CHOOSE p \in enabled : TRUE)
         THEN /\ Reject("toFixed() digits argument must be between 0 and 100", "none")
              /\ nextId' = id + 1
              /\ UNCHANGED weather_alerts
         ELSE /\ weather_alerts' = InsertAlerts(weather_alerts, inserted)
              /\ nextId' = id + 1 + Cardinality(inserted)
              /\ response' = [status |-> 200, error |-> "", weather |-> Some(id),
                              alerts |-> {a.id : a \in inserted}]
              /\ fault' = IF f = "preference_read" THEN f
                          ELSE IF f = "alert_insert" /\ rows # {} THEN f
                          ELSE "none"

FetchWeatherHandler(r, up, f) ==
  /\ served < MaxRequests
  /\ served' = served + 1
  /\ req' = r
  /\ UNCHANGED <<user_preferences, evalVars, dashVars, settingsVars>>
  /\ IF r.authHeader = None
     THEN /\ Reject("Missing authorization header", "none")
          /\ UNCHANGED <<weather_data, weather_alerts, nextId>>
     ELSE IF getUser(r.authHeader[1]) = None
     THEN /\ Reject("Unauthorized", "none")
          /\ UNCHANGED <<weather_data, weather_alerts, nextId>>
     ELSE IF Falsy(r.lat) \/ Falsy(r.lon)
     THEN /\ Reject("Missing latitude or longitude", "none")
          /\ UNCHANGED <<weather_data, weather_alerts, nextId>>
     ELSE IF ~up.ok
     THEN /\ Reject("Weather API error: " \o up.statusText, "upstream")
          /\ UNCHANGED <<weather_data, weather_alerts, nextId>>
     ELSE IF f = "weather_insert" \/ ~PreferenceKeyOk(r.preferenceId)
     THEN /\ Reject("insert into weather_data failed", "weather_insert")
          /\ UNCHANGED <<weather_data, weather_alerts, nextId>>
     ELSE Persist(r, up.data[1], f)

(***************************************************************************)
(* The other operations on the tables: mark-read from the alert list, and  *)
(* row deletions with the foreign-key actions of the migration.            *)
(***************************************************************************)

(* Row-level security: the preference a row hangs on belongs to the user. *)
OwnedBy(preferenceId, user) ==
  \E p \in user_preferences : Some(p.id) = preferenceId /\ p.user_id = user

(* update({ is_read: true }).eq('id', alertId), under the update policy. *)
MarkAsReadUnfiltered(user, alertId) ==
  /\ \E a \in weather_alerts : a.id = alertId
  /\ weather_alerts' =
       {IF OwnedBy(a.user_preference_id, user)
        THEN [a EXCEPT !.is_read = TRUE] ELSE a : a \in weather_alerts}
  /\ UNCHANGED <<user_preferences, weather_data, nextId, served, req, fault,
                 response, evalVars, dashVars, settingsVars>>
MarkAsRead(user, alertId) ==
  /\ \E a \in weather_alerts : a.id = alertId
  /\ weather_alerts' =
       {IF a.id = alertId /\ OwnedBy(a.user_preference_id, user)
        THEN [a EXCEPT !.is_read = TRUE] ELSE a : a \in weather_alerts}
  /\ UNCHANGED <<user_preferences, weather_data, nextId, served, req, fault,
                 response, evalVars, dashVars, settingsVars>>

(* weather_alerts.weather_data_id ... ON DELETE SET NULL *)
ObservationsDeletedCascade(rows, ids) ==
  {a \in rows : \A i \in ids : a.weather_data_id # Some(i)}
ObservationsDeleted(rows, ids) ==
  {IF \E i \in ids : a.weather_data_id = Some(i)
   THEN [a EXCEPT !.weather_data_id = None] ELSE a : a \in rows}

(* weather_alerts.user_preference_id ... ON DELETE CASCADE *)
PreferenceDeleted(rows, id) == {a \in rows : a.user_preference_id # Some(id)}

(* A row of weather_data is deleted (no policy lets a user do it: by the   *)
(* service role).                                                          *)
DeleteObservation(id) ==
  /\ \E o \in weather_data : o.id = id
  /\ weather_data' = {o \in weather_data : o.id # id}
  /\ weather_alerts' = ObservationsDeleted(weather_alerts, {id})
  /\ UNCHANGED <<user_preferences, nextId, served, req, fault, response, evalVars, dashVars, settingsVars>>

(* A user deletes a preference of their own; its observations and alerts   *)
(* go with it.                                                             *)
DeletePreference(user, id) ==
  /\ \E p \in user_preferences : p.id = id /\ p.user_id = user
  /\ user_preferences' = {p \in user_preferences : p.id # id}
  /\ LET gone == {o.id : o \in {x \in weather_data : x.user_preference_id = Some(id)}}
     IN  /\ weather_data' = {o \in weather_data : o.id \notin gone}
         /\ weather_alerts' =
              PreferenceDeleted(ObservationsDeleted(weather_alerts, gone), id)
  /\ UNCHANGED <<nextId, served, req, fault, response, evalVars, dashVars, settingsVars>>

InitHandler ==
  /\ weather = [temperature |-> 0, feels_like |-> 0, humidity |-> 0, wind_speed |-> 0]
  /\ thresholds = [temp_threshold_high |-> 0, temp_threshold_low |-> 0,
                   wind_speed_threshold |-> 1, humidity_threshold |-> 1]
  /\ alerts = <<>>
  /\ first = <<>>
  /\ calls = 0
  /\ pc = "ready"
  /\ user_preferences \in
       {{PreferenceRow("p1", "u1", 2, TRUE), PreferenceRow("p2", "u2", 1, e2)} :
          e2 \in BOOLEAN}
  /\ weather_data = {}
  /\ weather_alerts = {}
  /\ nextId = 1
  /\ served = 0
  /\ req = NoRequest
  /\ fault = "none"
  /\ response = NoResponse
  /\ DashboardUnmounted
  /\ SettingsIdle

(* The provider is asked only once the request is validated, and the      *)
(* store is used only once the provider has answered.  A user marks the    *)
(* alerts of the list loaded for that user's preference.                   *)
Validated(r) ==
  /\ r.authHeader # None
  /\ getUser(r.authHeader[1]) # None
  /\ ~Falsy(r.lat)
  /\ ~Falsy(r.lon)

UpstreamsFor(r) ==
  IF Validated(r) THEN Upstreams ELSE {up \in Upstreams : ~up.ok}

FaultsFor(up) == IF up.ok THEN Faults ELSE {"none"}

NextHandler ==
  \/ \E r \in Requests : \E up \in UpstreamsFor(r) : \E f \in FaultsFor(up) :
        FetchWeatherHandler(r, up, f)
  \/ \E u \in Users :
        \E a \in {x.id : x \in {y \in weather_alerts : OwnedBy(y.user_preference_id, u)}} :
          MarkAsRead(u, a)
  \/ \E o \in {x.id : x \in weather_data} : DeleteObservation(o)
  \/ \E u \in Users, p \in PreferenceIds : DeletePreference(u, p)

SpecHandler == InitHandler /\ [][NextHandler]_vars

(***************************************************************************)
(* Vocabulary of the handler properties.                                   *)
(***************************************************************************)
HandlerStep == served' = served + 1

Caller(r) == IF r.authHeader = None THEN None ELSE getUser(r.authHeader[1])

NewObservations == {o \in weather_data' : \A x \in weather_data : x.id # o.id}

NewAlertRows == {a \in weather_alerts' : \A x \in weather_alerts : x.id # a.id}

Descriptor(a) ==
  [type |-> a.alert_type, severity |-> a.severity,
   title |-> a.title, message |-> a.message]

(***************************************************************************)
(* C12.  A request with no Authorization header, with a token that is not  *)
(* valid, with lat or lon missing, or whose weather-provider call fails,   *)
(* is answered with status 400 and an error message, and serving it leaves *)
(* the three tables as they were.                                          *)
(***************************************************************************)
C12_RejectedWritesNothing ==
  [][ ( /\ HandlerStep
        /\ \/ req'.authHeader = None
           \/ Caller(req') = None
           \/ req'.lat = None
           \/ req'.lon = None
           \/ fault' = "upstream" )
      => /\ response'.status = 400
         /\ response'.error # ""
         /\ weather_data' = weather_data
         /\ weather_alerts' = weather_alerts
         /\ user_preferences' = user_preferences ]_vars

C12_Witness ==
  /\ served = 2
  /\ weather_data # {}
  /\ fault = "upstream"
  /\ response.status = 400
  /\ response.error = "Weather API error: Unauthorized"

(***************************************************************************)
(* C13.  Whenever a step of an invocation failed (the upstream fetch, the  *)
(* observation insert, the preference read or the alert insert), the       *)
(* response is an error response, never a success response.                *)
(***************************************************************************)
C13_AnyFailureIsSurfaced ==
  (served >= 1 /\ fault # "none") => (response.status = 400 /\ response.error # "")

C15_AlertsOnlyMarkedReadOriginal ==
  [][ \A a \in weather_alerts :
        \E b \in weather_alerts' :
          b = a \/ b = [a EXCEPT !.is_read = TRUE] ]_vars

(* C15 as amended: an alert row stays in storage for as long as its        *)
(* preference exists (it is removed only by the cascade of deleting its    *)
(* preference), and the only changes ever made to it are is_read set to    *)
(* true by mark-read and weather_data_id set to null when its observation  *)
(* is deleted.                                                             *)
C15_AlertsKeptWhilePreferenceExists ==
  [][ \A a \in weather_alerts :
        /\ (\E p \in user_preferences' : Some(p.id) = a.user_preference_id)
             => \E b \in weather_alerts' : b.id = a.id
        /\ \A b \in weather_alerts' :
             b.id = a.id =>
               /\ Descriptor(b) = Descriptor(a)
               /\ b.user_preference_id = a.user_preference_id
               /\ b.is_read = a.is_read \/ (b.is_read /\ ~HandlerStep)
               /\ \/ b.weather_data_id = a.weather_data_id
                  \/ /\ b.weather_data_id = None
                     /\ \A o \in weather_data' : Some(o.id) # a.weather_data_id ]_vars

C15_Witness ==
  /\ \E a \in weather_alerts : a.is_read /\ a.weather_data_id = None
  /\ Cardinality(user_preferences) = 1
  /\ served = 2

(***************************************************************************)
(* C16.  When an observation is deleted (its preference staying), every    *)
(* alert it triggered is still in storage afterwards, with weather_data_id *)
(* null and its type, severity, title, message, is_read and preference     *)
(* reference unchanged.                                                    *)
(***************************************************************************)
C16_OrphanedAlertsSurvive ==
  [][ \A o \in weather_data :
        ( /\ \A x \in weather_data' : x.id # o.id
          /\ user_preferences' = user_preferences )
        => \A a \in weather_alerts :
             a.weather_data_id = Some(o.id)
               => [a EXCEPT !.weather_data_id = None] \in weather_alerts' ]_vars

C16_Witness ==
  /\ weather_data = {}
  /\ Cardinality(user_preferences) = 2
  /\ \E a \in weather_alerts : a.weather_data_id = None /\ ~a.is_read
  /\ Cardinality(weather_alerts) >= 2

(***************************************************************************)
(* C17.  Every observation and alert row that an authenticated request     *)
(* naming a preference writes hangs on a preference whose user_id is the   *)
(* caller, so the thresholds read are those of a preference of the caller. *)
(***************************************************************************)
C17_RowsUnderOwnPreference ==
  [][ (HandlerStep /\ Caller(req') # None /\ req'.preferenceId # None) =>
        /\ \A o \in NewObservations : OwnedBy(o.user_preference_id, Caller(req')[1])
        /\ \A a \in NewAlertRows : OwnedBy(a.user_preference_id, Caller(req')[1]) ]_vars

(***************************************************************************)
(* C18.  An authenticated request is rejected with 'Missing latitude or    *)
(* longitude' iff lat or lon is absent from the body; with both present    *)
(* (0 included) it goes on to the upstream fetch.                          *)
(***************************************************************************)
C18_RejectedIffCoordinateAbsent ==
  (served >= 1 /\ Caller(req) # None) =>
    ( response.error = "Missing latitude or longitude"
        <=> (req.lat = None \/ req.lon = None) )

(***************************************************************************)
(* The Dashboard component: its state, the refresh and settings buttons,   *)
(* the effect on [preferences] and the replies of fetchWeather calls.      *)
(* A preference is represented by the version of the stored row it was     *)
(* read from, and the weather shown by the call whose reply carried it.    *)
(***************************************************************************)
MaxFetches == 3
MaxSaves == 2

(* fetchWeather up to its await of the request: setRefreshing(true) and    *)
(* the POST built from the preferences of the render that called it.       *)
fetchWeather(pref) ==
  /\ refreshing' = TRUE
  /\ started' = started + 1
  /\ inFlight' = inFlight \cup {[call |-> started + 1, preference |-> pref]}

(* The effect on [user]: loadPreferences sets preferences, and the effect  *)
(* on [preferences] then calls fetchWeather.                               *)
loadPreferences ==
  /\ preferences = None
  /\ started < MaxFetches
  /\ preferences' = Some(stored)
  /\ fetchWeather(stored)
  /\ UNCHANGED <<shownWeather, showSettings, stored, failed, evalVars, handlerVars, settingsVars>>

(* The refresh button: onClick={fetchWeather} disabled={refreshing}. *)
ClickRefresh ==
  /\ preferences # None
  /\ ~refreshing
  /\ started < MaxFetches
  /\ fetchWeather(preferences[1])
  /\ UNCHANGED <<preferences, shownWeather, showSettings, stored, failed,
                 evalVars, handlerVars, settingsVars>>

(* The settings button, which is never disabled, and the modal's onClose. *)
OpenSettings ==
  /\ preferences # None
  /\ ~showSettings
  /\ showSettings' = TRUE
  /\ UNCHANGED <<preferences, shownWeather, refreshing, inFlight, started, stored,
                 failed, evalVars, handlerVars, settingsVars>>

CloseSettings ==
  /\ showSettings
  /\ showSettings' = FALSE
  /\ UNCHANGED <<preferences, shownWeather, refreshing, inFlight, started, stored,
                 failed, evalVars, handlerVars, settingsVars>>

(* The modal's submit followed by handleSettingsSave: the row is updated,  *)
(* loadPreferences sets a new preferences object (edited or not), the      *)
(* modal closes and the effect on [preferences] calls fetchWeather.        *)
handleSettingsSave(edited) ==
  /\ showSettings
  /\ started < MaxFetches
  /\ edited => stored < MaxSaves
  /\ stored' = IF edited THEN stored + 1 ELSE stored
  /\ preferences' = Some(stored')
  /\ showSettings' = FALSE
  /\ fetchWeather(stored')
  /\ UNCHANGED <<shownWeather, failed, evalVars, handlerVars, settingsVars>>

(* The rest of fetchWeather, run when the reply of call c arrives:         *)
(* setWeather if the result carries a weather, then finally                *)
(* setRefreshing(false).                                                   *)
FetchReply(c, ok) ==
  /\ c \in inFlight
  /\ inFlight' = inFlight \ {c}
  /\ shownWeather' = IF ok THEN Some(c) ELSE shownWeather
  /\ failed' = IF ok THEN failed ELSE failed \cup {c.call}
  /\ refreshing' = FALSE
  /\ UNCHANGED <<preferences, showSettings, started, stored, evalVars, handlerVars, settingsVars>>

InitDashboard ==
  /\ weather = [temperature |-> 0, feels_like |-> 0, humidity |-> 0, wind_speed |-> 0]
  /\ thresholds = [temp_threshold_high |-> 0, temp_threshold_low |-> 0,
                   wind_speed_threshold |-> 1, humidity_threshold |-> 1]
  /\ alerts = <<>>
  /\ first = <<>>
  /\ calls = 0
  /\ pc = "ready"
  /\ HandlerIdle
  /\ DashboardUnmounted
  /\ SettingsIdle

NextDashboard ==
  \/ loadPreferences
  \/ ClickRefresh
  \/ OpenSettings
  \/ CloseSettings
  \/ \E edited \in BOOLEAN : handleSettingsSave(edited)
  \/ \E c \in inFlight, ok \in BOOLEAN : FetchReply(c, ok)

SpecDashboard == InitDashboard /\ [][NextDashboard]_vars

(***************************************************************************)
(* C20.  Whenever a fetchWeather call is in flight the refreshing flag is  *)
(* true (so the refresh button is disabled), and at most one fetchWeather  *)
(* call is in flight at any time.                                          *)
(***************************************************************************)
C20_RefreshingWhileInFlight ==
  /\ inFlight # {} => refreshing
  /\ Cardinality(inFlight) <= 1

(***************************************************************************)
(* C21.  Once every fetchWeather call has been answered, and the call      *)
(* started last was answered with a weather, the weather (and location)    *)
(* shown is the one that call returned: the call started last, made with   *)
(* the current preferences.                                                *)
(***************************************************************************)
C21_LatestCallShown ==
  (inFlight = {} /\ started >= 1 /\ started \notin failed)
    => shownWeather = Some([call |-> started, preference |-> preferences[1]])

(***************************************************************************)
(* The SettingsModal: formData initialised from the preferences prop, the  *)
(* form's edits, and handleSubmit writing formData back to the row.        *)
(***************************************************************************)
MaxSubmits == 1

DefaultTempHigh == 35
DefaultTempLow == 0
DefaultWindSpeed == 15
DefaultHumidity == 85

StoredValues == {0, 1}

ThresholdFields ==
  {"temp_threshold_high", "temp_threshold_low",
   "wind_speed_threshold", "humidity_threshold"}

(* The rows a user can have stored: every numeric column may hold 0. *)
StoredPreferences ==
  [location_name : {"A"},
   latitude : StoredValues,
   longitude : {1},
   temp_threshold_high : StoredValues,
   temp_threshold_low : StoredValues,
   wind_speed_threshold : StoredValues,
   humidity_threshold : StoredValues,
   alerts_enabled : BOOLEAN]

(* The results of a location search that the user can pick from. *)
LocationResults == {[name |-> "B", lat |-> 0, lon |-> 1]}

(* preferences?.f : undefined when there is no preference. *)
Field(prefs, f) == IF prefs = None THEN None ELSE Some(prefs[1][f])

(* v || d on an optional number, v || d on an optional string, v ?? d. *)
Or(v, d) == IF Falsy(v) THEN d ELSE v[1]

OrString(v, d) == IF v = None \/ v = Some("") THEN d ELSE v[1]

Nullish(v, d) == IF v = None THEN d ELSE v[1]

(* The initial value of the formData state. *)
initialFormData(prefs) ==
  [location_name |-> OrString(Field(prefs, "location_name"), ""),
   latitude |-> Or(Field(prefs, "latitude"), 0),
   longitude |-> Or(Field(prefs, "longitude"), 0),
   temp_threshold_high |-> Or(Field(prefs, "temp_threshold_high"), DefaultTempHigh),
   temp_threshold_low |-> Or(Field(prefs, "temp_threshold_low"), DefaultTempLow),
   wind_speed_threshold |-> Or(Field(prefs, "wind_speed_threshold"), DefaultWindSpeed),
   humidity_threshold |-> Or(Field(prefs, "humidity_threshold"), DefaultHumidity),
   alerts_enabled |-> Nullish(Field(prefs, "alerts_enabled"), TRUE)]

(* The Dashboard mounts the modal on its preferences. *)
OpenModal ==
  /\ formData = None
  /\ formData' = Some(initialFormData(Some(storedPreference)))
  /\ UNCHANGED <<storedPreference, submitted, evalVars, handlerVars, dashVars>>

(* onChange of a threshold input: Number(e.target.value). *)
EditThreshold(f, v) ==
  /\ formData # None
  /\ formData' = Some([formData[1] EXCEPT ![f] = v])
  /\ UNCHANGED <<storedPreference, submitted, evalVars, handlerVars, dashVars>>

(* onChange of the checkbox: e.target.checked. *)
EditAlertsEnabled(checked) ==
  /\ formData # None
  /\ formData' = Some([formData[1] EXCEPT !.alerts_enabled = checked])
  /\ UNCHANGED <<storedPreference, submitted, evalVars, handlerVars, dashVars>>

selectLocation(location) ==
  /\ formData # None
  /\ formData' = Some([formData[1] EXCEPT !.location_name = location.name,
                                          !.latitude = location.lat,
                                          !.longitude = location.lon])
  /\ UNCHANGED <<storedPreference, submitted, evalVars, handlerVars, dashVars>>

(* update({...formData}) on the row, then onSave, which closes the modal. *)
handleSubmit ==
  /\ formData # None
  /\ submitted < MaxSubmits
  /\ storedPreference' = formData[1]
  /\ formData' = None
  /\ submitted' = submitted + 1
  /\ UNCHANGED <<evalVars, handlerVars, dashVars>>

onClose ==
  /\ formData # None
  /\ formData' = None
  /\ UNCHANGED <<storedPreference, submitted, evalVars, handlerVars, dashVars>>

InitSettings ==
  /\ weather = [temperature |-> 0, feels_like |-> 0, humidity |-> 0, wind_speed |-> 0]
  /\ thresholds = [temp_threshold_high |-> 0, temp_threshold_low |-> 0,
                   wind_speed_threshold |-> 1, humidity_threshold |-> 1]
  /\ alerts = <<>>
  /\ first = <<>>
  /\ calls = 0
  /\ pc = "ready"
  /\ HandlerIdle
  /\ DashboardUnmounted
  /\ storedPreference \in StoredPreferences
  /\ formData = None
  /\ submitted = 0

NextSettings ==
  \/ OpenModal
  \/ \E f \in ThresholdFields, v \in StoredValues : EditThreshold(f, v)
  \/ \E checked \in BOOLEAN : EditAlertsEnabled(checked)
  \/ \E location \in LocationResults : selectLocation(location)
  \/ handleSubmit
  \/ onClose

SpecSettings == InitSettings /\ [][NextSettings]_vars

(***************************************************************************)
(* C22.  Submitting the modal with formData as opening it on the stored    *)
(* row left it (no field edited) writes back the stored values of the four *)
(* thresholds, latitude, longitude and alerts_enabled.                     *)
(***************************************************************************)
C22_RoundTrip ==
  [][ ( /\ formData = Some(initialFormData(Some(storedPreference)))
        /\ submitted' = submitted + 1 )
      => /\ \A f \in ThresholdFields : storedPreference'[f] = storedPreference[f]
         /\ storedPreference'.latitude = storedPreference.latitude
         /\ storedPreference'.longitude = storedPreference.longitude
         /\ storedPreference'.alerts_enabled = storedPreference.alerts_enabled ]_vars

(***************************************************************************)
(* The alert list of a user: loadAlerts reads the alerts of the user's     *)
(* preference, newest first and at most AlertLimit of them, and AlertList  *)
(* counts the unread ones.                                                 *)
(***************************************************************************)
AlertLimit == 10

(* order by created_at descending: ids grow with creation. *)
RECURSIVE NewestFirst(_)
NewestFirst(rows) ==
  IF rows = {}
  THEN <<>>
  ELSE LET newest == CHOOSE a \in rows : \A b \in rows : b.id <= a.id
       IN  <<newest>> \o NewestFirst(rows \ {newest})

loadAlerts(user) ==
  LET own == {a \in weather_alerts : OwnedBy(a.user_preference_id, user)}
      listed == NewestFirst(own)
  IN  SubSeq(listed, 1, IF Len(listed) < AlertLimit THEN Len(listed) ELSE AlertLimit)

IsUnread(a) == ~a.is_read

unreadCount(list) == Len(SelectSeq(list, IsUnread))

(***************************************************************************)
(* C23.  A newly created alert has is_read false; markAsRead(alertId) by   *)
(* the alert's owner sets is_read to true on the alert with that id and    *)
(* changes no other field, no other alert and no other table; an alert     *)
(* that is read stays read in every later state in which it exists; and    *)
(* the unread count of a user's list is the number of listed alerts with   *)
(* is_read false.                                                          *)
(***************************************************************************)
C23_ReadStateMonotonic ==
  [][ /\ \A a \in NewAlertRows : ~a.is_read
      /\ \A u \in Users : \A a \in weather_alerts :
           (served' = served /\ OwnedBy(a.user_preference_id, u) /\ MarkAsRead(u, a.id)) =>
             /\ [a EXCEPT !.is_read = TRUE] \in weather_alerts'
             /\ \A b \in weather_alerts : b.id # a.id => b \in weather_alerts'
             /\ Cardinality(weather_alerts') = Cardinality(weather_alerts)
             /\ UNCHANGED <<user_preferences, weather_data>>
      /\ \A a \in weather_alerts : \A b \in weather_alerts' :
           (b.id = a.id /\ a.is_read) => b.is_read
      /\ \A u \in Users :
           LET listed == loadAlerts(u)
           IN  unreadCount(listed) =
                 Cardinality({i \in DOMAIN listed : ~listed[i].is_read}) ]_vars

C23_Witness ==
  /\ served = 2
  /\ \E a \in weather_alerts : \E b \in weather_alerts :
       /\ a.is_read
       /\ ~b.is_read
       /\ a.id < b.id
       /\ a.weather_data_id # b.weather_data_id
       /\ a.user_preference_id = b.user_preference_id
  /\ \E u \in Users : Len(loadAlerts(u)) >= 3 /\ unreadCount(loadAlerts(u)) = 2

====
